---- MODULE Spec2Model ----
(***************************************************************************)
(* A model of clickhouse_client.py: the ClickHouseQuery builder, the       *)
(* ClickHouseClient methods over one HTTP round trip, and the CLI.         *)
(*                                                                         *)
(* Text is a sequence of tokens; a token is an atomic piece of text (a     *)
(* keyword, a name, a separator, one character).  Concatenation of text is *)
(* \o, so f-strings and str.join are sequence concatenations.              *)
(***************************************************************************)
EXTENDS Integers, Sequences, FiniteSets, TLC

VARIABLES
    \* ClickHouseQuery fields
    select_cols, from_table, where_conditions, group_cols, order_cols,
    limit_count, desc,
    \* the string returned by the last build(), the builder calls made so far,
    \* and the name of the last builder operation
    sql, calls, last,
    \* ClickHouseClient: the connection, the last method call and its arguments,
    \* what the environment answered, the HTTP requests the call issued, the
    \* outcome of the nested self.query(), and the outcome of the call itself
    conn, method, args, env, requests, inner, result,
    \* the exception the call's own except clause caught, the file the call
    \* wrote (export_csv), and the CLI's output and exit status
    caught, written, stdout, exit

builderVars == <<select_cols, from_table, where_conditions, group_cols,
                 order_cols, limit_count, desc, sql, calls, last>>
clientVars == <<conn, method, args, env, requests, inner, result,
                caught, written, stdout, exit>>
vars == <<builderVars, clientVars>>

\* Python's None
None == [isNone |-> TRUE]
Some(x) == [isNone |-> FALSE, val |-> x]

\* The number of builder calls a run makes before it stops.
MaxCalls == 3

(***************************************************************************)
(* Text helpers                                                            *)
(***************************************************************************)
RECURSIVE Join(_, _)
\* sep.join(items): the items' text with sep between neighbours
Join(items, sep) ==
    IF items = <<>> THEN <<>>
    ELSE IF Len(items) = 1 THEN items[1]
    ELSE items[1] \o sep \o Join(Tail(items), sep)

\* str(n) of an integer, as one token
IntStr(n) == <<ToString(n)>>

(***************************************************************************)
(* ClickHouseQuery                                                         *)
(***************************************************************************)
\* The arguments the builder is driven with: names are text, "" is <<>>.
ColArgs == {<<>>, << <<"a">> >>, << <<"a">>, <<"b">> >>, << <<>> >>}
CondArgs == {<<>>, << <<"x>1">> >>, << <<"x>1">>, <<"y<2">> >>}
TableArgs == {<<>>, <<"t">>, <<"u">>}
LimitArgs == {0, 5, 10}

\* truthiness of an optional string / an optional integer
TruthyStr(x) == ~x.isNone /\ x.val # <<>>
TruthyInt(x) == ~x.isNone /\ x.val # 0

\* the ORDER BY clause: the columns, then " DESC" when the flag is set
OrderPart(cols, d) ==
    <<"ORDER BY", " ">> \o Join(cols, <<", ">>) \o (IF d THEN <<" DESC">> ELSE <<>>)

\* the clause list of build() in a different order (GROUP BY after ORDER BY)
PartsSwapped(sc, ft, wc, gc, oc, lc, d) ==
    << (IF sc # <<>> THEN <<"SELECT", " ">> \o Join(sc, <<", ">>)
                     ELSE <<"SELECT", " ", "*">>) >>
    \o (IF TruthyStr(ft) THEN << <<"FROM", " ">> \o ft.val >> ELSE <<>>)
    \o (IF wc # <<>> THEN << <<"WHERE", " ">> \o Join(wc, <<" AND ">>) >> ELSE <<>>)
    \o (IF oc # <<>> THEN << OrderPart(oc, d) >> ELSE <<>>)
    \o (IF gc # <<>> THEN << <<"GROUP BY", " ">> \o Join(gc, <<", ">>) >> ELSE <<>>)
    \o (IF TruthyInt(lc) THEN << <<"LIMIT", " ">> \o IntStr(lc.val) >> ELSE <<>>)

\* build(): the list `parts`
Parts(sc, ft, wc, gc, oc, lc, d) ==
    << (IF sc # <<>> THEN <<"SELECT", " ">> \o Join(sc, <<", ">>)
                     ELSE <<"SELECT", " ", "*">>) >>
    \o (IF TruthyStr(ft) THEN << <<"FROM", " ">> \o ft.val >> ELSE <<>>)
    \o (IF wc # <<>> THEN << <<"WHERE", " ">> \o Join(wc, <<" AND ">>) >> ELSE <<>>)
    \o (IF gc # <<>> THEN << <<"GROUP BY", " ">> \o Join(gc, <<", ">>) >> ELSE <<>>)
    \o (IF oc # <<>> THEN << OrderPart(oc, d) >> ELSE <<>>)
    \o (IF TruthyInt(lc) THEN << <<"LIMIT", " ">> \o IntStr(lc.val) >> ELSE <<>>)

\* build(): " ".join(parts)
build == Join(Parts(select_cols, from_table, where_conditions, group_cols,
                    order_cols, limit_count, desc), <<" ">>)

BuilderInit ==
    /\ select_cols = <<>>
    /\ from_table = None
    /\ where_conditions = <<>>
    /\ group_cols = <<>>
    /\ order_cols = <<>>
    /\ limit_count = None
    /\ desc = FALSE
    /\ sql = None
    /\ calls = <<>>
    /\ last = "init"

Logged(op, a, d) ==
    /\ Len(calls) < MaxCalls
    /\ calls' = Append(calls, [op |-> op, arg |-> a, desc |-> d])
    /\ last' = op
    /\ UNCHANGED <<sql, clientVars>>

select ==
    \E cols \in ColArgs :
        /\ Logged("select", Some(cols), FALSE)
        /\ select_cols' = select_cols \o cols
        /\ UNCHANGED <<from_table, where_conditions, group_cols, order_cols,
                       limit_count, desc>>

from_ ==
    \E table \in TableArgs :
        /\ Logged("from_", Some(table), FALSE)
        /\ from_table' = Some(table)
        /\ UNCHANGED <<select_cols, where_conditions, group_cols, order_cols,
                       limit_count, desc>>

where ==
    \E conditions \in CondArgs :
        /\ Logged("where", Some(conditions), FALSE)
        /\ where_conditions' = where_conditions \o conditions
        /\ UNCHANGED <<select_cols, from_table, group_cols, order_cols,
                       limit_count, desc>>

group_by ==
    \E cols \in ColArgs :
        /\ Logged("group_by", Some(cols), FALSE)
        /\ group_cols' = group_cols \o cols
        /\ UNCHANGED <<select_cols, from_table, where_conditions, order_cols,
                       limit_count, desc>>

\* order_by(): the flag kept once set
OrderByDescSticky(d) == desc \/ d

\* order_by(): self._desc = desc
OrderByDesc(d) == d

order_by ==
    \E cols \in ColArgs, d \in BOOLEAN :
        /\ Logged("order_by", Some(cols), d)
        /\ order_cols' = order_cols \o cols
        /\ desc' = OrderByDesc(d)
        /\ UNCHANGED <<select_cols, from_table, where_conditions, group_cols,
                       limit_count>>

limit ==
    \E n \in LimitArgs :
        /\ Logged("limit", Some(n), FALSE)
        /\ limit_count' = Some(n)
        /\ UNCHANGED <<select_cols, from_table, where_conditions, group_cols,
                       order_cols, desc>>

Build ==
    /\ sql' = Some(build)
    /\ last' = "build"
    /\ UNCHANGED <<select_cols, from_table, where_conditions, group_cols,
                   order_cols, limit_count, desc, calls, clientVars>>

(***************************************************************************)
(* What the call history says, and what a rendered string holds            *)
(***************************************************************************)
RECURSIVE Accum(_, _)
\* every argument passed to the calls of `op`, in call order
Accum(log, op) ==
    IF log = <<>> THEN <<>>
    ELSE (IF log[1].op = op THEN log[1].arg.val ELSE <<>>) \o Accum(Tail(log), op)

\* the last call of `op`, None when there was none
LastOf(log, op) ==
    LET idx == {i \in 1..Len(log) : log[i].op = op}
    IN  IF idx = {} THEN None
        ELSE Some(log[CHOOSE i \in idx : \A j \in idx : j <= i])

ClauseOrder == <<"SELECT", "FROM", "WHERE", "GROUP BY", "ORDER BY", "LIMIT">>
IsKeyword(t) == \E i \in 1..Len(ClauseOrder) : ClauseOrder[i] = t

\* the keywords of a rendered string, in the order they occur
KeywordSeq(s) == SelectSeq(s, IsKeyword)

\* the text of the clause of keyword kw in s: from the keyword up to the
\* separator before the next keyword, or to the end
ClauseOf(s, kw) ==
    LET p == CHOOSE i \in 1..Len(s) : s[i] = kw
        nxt == {i \in (p+1)..Len(s) : IsKeyword(s[i])}
        q == IF nxt = {} THEN Len(s) + 2 ELSE CHOOSE i \in nxt : \A j \in nxt : i <= j
    IN  SubSeq(s, p, q - 2)

\* whether the history gave clause kw a non-empty input
HasInput(kw) ==
    CASE kw = "SELECT" -> TRUE
      [] kw = "FROM" -> LET c == LastOf(calls, "from_") IN ~c.isNone /\ c.val.arg.val # <<>>
      [] kw = "WHERE" -> Accum(calls, "where") # <<>>
      [] kw = "GROUP BY" -> Accum(calls, "group_by") # <<>>
      [] kw = "ORDER BY" -> Accum(calls, "order_by") # <<>>
      [] kw = "LIMIT" -> LET c == LastOf(calls, "limit") IN ~c.isNone /\ c.val.arg.val # 0

HasInputKw(t) == HasInput(t)

\* the text the history gives clause kw (ORDER BY: its columns only)
InputText(kw) ==
    CASE kw = "SELECT" -> IF Accum(calls, "select") = <<>> THEN <<"*">>
                          ELSE Join(Accum(calls, "select"), <<", ">>)
      [] kw = "FROM" -> LastOf(calls, "from_").val.arg.val
      [] kw = "WHERE" -> Join(Accum(calls, "where"), <<" AND ">>)
      [] kw = "GROUP BY" -> Join(Accum(calls, "group_by"), <<", ">>)
      [] kw = "ORDER BY" -> Join(Accum(calls, "order_by"), <<", ">>)
      [] kw = "LIMIT" -> IntStr(LastOf(calls, "limit").val.arg.val)

\* C1: after any sequence of builder calls, build() renders the clauses with
\* a non-empty input in the fixed order SELECT, FROM, WHERE, GROUP BY,
\* ORDER BY, LIMIT, whatever the order of the calls; SELECT is first and is
\* "SELECT *" when no column was selected; a clause with an empty input is
\* absent; neighbouring clauses are separated by exactly one space.
C1_FixedClauseOrder ==
    last = "build" =>
        LET s == sql.val
        IN  /\ KeywordSeq(s) = SelectSeq(ClauseOrder, HasInputKw)
            /\ s[1] = "SELECT"
            /\ \A i \in 2..Len(s) : IsKeyword(s[i]) => s[i-1] = " "
            /\ \A k \in 1..Len(ClauseOrder) :
                  LET kw == ClauseOrder[k]
                  IN  HasInput(kw) =>
                        LET c == ClauseOf(s, kw)
                            want == <<kw, " ">> \o InputText(kw)
                        IN  IF kw = "ORDER BY"
                            THEN Len(c) >= Len(want) /\ SubSeq(c, 1, Len(want)) = want
                            ELSE c = want

\* C1's case: limit, where and from_ called in that order and then built
C1_Witness ==
    /\ last = "build"
    /\ Len(calls) = 3
    /\ calls[1].op = "limit" /\ calls[2].op = "where" /\ calls[3].op = "from_"
    /\ sql.val = <<"SELECT", " ", "*", " ", "FROM", " ", "t", " ",
                   "WHERE", " ", "x>1", " ", "LIMIT", " ", "10">>

\* the number of tokens of s equal to t
Count(s, t) == Cardinality({i \in 1..Len(s) : s[i] = t})

\* C8: build() appends " DESC" once, at the end of the ORDER BY clause, iff
\* the last order_by call passed desc = TRUE and some order column was
\* accumulated; the clause lists the columns of all order_by calls in call
\* order.
C8_LastDescWins ==
    last = "build" =>
        LET s == sql.val
            cols == Accum(calls, "order_by")
            lo == LastOf(calls, "order_by")
            d == ~lo.isNone /\ lo.val.desc
        IN  /\ cols = <<>> => Count(s, "ORDER BY") = 0 /\ Count(s, " DESC") = 0
            /\ cols # <<>> =>
                 /\ Count(s, " DESC") = (IF d THEN 1 ELSE 0)
                 /\ ClauseOf(s, "ORDER BY") =
                      <<"ORDER BY", " ">> \o Join(cols, <<", ">>)
                        \o (IF d THEN <<" DESC">> ELSE <<>>)

\* C8's case: order_by(desc=True) with a column, then order_by() without
\* the flag, then build
C8_Witness ==
    /\ last = "build"
    /\ Len(calls) = 2
    /\ calls[1].op = "order_by" /\ calls[1].desc /\ calls[1].arg.val = << <<"a">> >>
    /\ calls[2].op = "order_by" /\ ~calls[2].desc /\ calls[2].arg.val = << <<"a">>, <<"b">> >>
    /\ sql.val = <<"SELECT", " ", "*", " ", "ORDER BY", " ", "a", ", ", "a", ", ", "b">>

(***************************************************************************)
(* Values, rows and the environment of the client                          *)
(***************************************************************************)
\* a Python value: a str (its text), an int, or None
VStr(s) == [t |-> "str", s |-> s, n |-> 0]
VInt(n) == [t |-> "int", s |-> <<>>, n |-> n]
VNone == [t |-> "none", s |-> <<>>, n |-> 0]

\* str(value)
Str(v) == CASE v.t = "str" -> v.s
            [] v.t = "int" -> IntStr(v.n)
            [] v.t = "none" -> <<"None">>

\* a row is a dict: a sequence of <<key, value>> items in insertion order
Keys(row) == [i \in 1..Len(row) |-> row[i][1]]
HasKey(row, k) == \E i \in 1..Len(row) : row[i][1] = k
\* row.get(k, default)
Get(row, k, default) ==
    IF HasKey(row, k) THEN row[CHOOSE i \in 1..Len(row) : row[i][1] = k][2]
    ELSE default

\* how a call ends: it returns a value or raises an exception
Return(v) == [kind |-> "return", val |-> v]
Raise(type, msg) == [kind |-> "raise", type |-> type, msg |-> msg]

\* ClickHouseConnection: the configurations a client is constructed with
Conns == {[host |-> <<"localhost">>, port |-> 8123, database |-> <<"default">>,
           user |-> u, password |-> p] :
              u \in {<<>>, <<"default">>}, p \in {<<>>, <<"pw">>}}

\* base_url
base_url(c) == <<"http://">> \o c.host \o <<":">> \o IntStr(c.port)

\* the user and password parameters, each only when non-empty
Credentials(c) ==
    (IF c.user # <<>> THEN <<"&user=">> \o c.user ELSE <<>>)
    \o (IF c.password # <<>> THEN <<"&password=">> \o c.password ELSE <<>>)

\* the result lists a server may answer with
Datas == {
    <<>>,
    << << <<"name", VStr(<<"events">>)>> >>, << <<"name", VStr(<<"users">>)>> >> >>,
    << << <<"x", VInt(1)>> >> >>,
    << << <<"rows", VInt(5)>>, <<"compressed_size", VInt(1048576)>>,
          <<"uncompressed_size", VInt(3670016)>> >> >>,
    << << <<"rows", VStr(<<"5">>)>>, <<"compressed_size", VStr(<<"1048576">>)>>,
          <<"uncompressed_size", VStr(<<"3670016">>)>> >> >>,
    << << <<"rows", VInt(7)>> >> >>,
    << << <<"a", VInt(1)>>, <<"b", VInt(2)>> >>, << <<"a", VInt(3)>>, <<"c", VInt(4)>> >> >>,
    << << <<"a", VInt(1)>>, <<"b", VInt(2)>> >>, << <<"b", VInt(3)>> >> >> }

\* a response body: whether it is JSON, whether the JSON is an object, and the
\* object's "data" member (None when it has none)
Bodies == {[json |-> FALSE, object |-> FALSE, data |-> None],
           [json |-> TRUE, object |-> FALSE, data |-> None],
           [json |-> TRUE, object |-> TRUE, data |-> None]}
          \cup {[json |-> TRUE, object |-> TRUE, data |-> Some(d)] : d \in Datas}

\* what urlopen()/response.read() do: answer with a body, raise URLError (its
\* subclass HTTPError included), or raise an exception that is no URLError
\* (a timeout or a closed connection while the response is awaited or read)
HttpOutcomes ==
    {[kind |-> "ok", type |-> "", msg |-> <<>>, body |-> b] : b \in Bodies}
    \cup {[kind |-> "URLError", type |-> "URLError", msg |-> m, body |-> None] :
            m \in {<<"<urlopen error [Errno 111] Connection refused>">>,
                   <<"HTTP Error 500: Internal Server Error">>}}
    \cup {[kind |-> "other", type |-> "TimeoutError", msg |-> <<"timed out">>,
           body |-> None]}

\* what open()/read()/write() of a file do
ReadOutcomes(path) ==
    {[kind |-> "ok", type |-> "", msg |-> <<>>, content |-> <<"SELECT 1">>],
     [kind |-> "error", type |-> "FileNotFoundError",
      msg |-> <<"[Errno 2] No such file or directory: '">> \o path \o <<"'">>,
      content |-> <<>>]}
WriteOutcomes(path) ==
    {[kind |-> "ok", type |-> "", msg |-> <<>>, content |-> <<>>],
     [kind |-> "error", type |-> "PermissionError",
      msg |-> <<"[Errno 13] Permission denied: '">> \o path \o <<"'">>,
      content |-> <<>>]}

(***************************************************************************)
(* ClickHouseClient.query and insert                                       *)
(***************************************************************************)
\* json.loads(response.read().decode()) and result.get("data", [])
ParseData(body) ==
    IF ~body.json
    THEN Raise("JSONDecodeError", <<"Expecting value: line 1 column 1 (char 0)">>)
    ELSE IF ~body.object
    THEN Raise("AttributeError", <<"'list' object has no attribute 'get'">>)
    ELSE IF body.data.isNone THEN Return(<<>>)
    ELSE Return(body.data.val)

\* urlopen called again after a failure
AttemptsRetry(req, http) == IF http.kind = "ok" THEN <<req>> ELSE <<req, req>>

\* the requests one urlopen(req, timeout=30) sends
Attempts(req, http) == <<req>>

\* query's try/except: `except urllib.error.URLError` wraps a URLError; any
\* other exception leaves query as it is
QueryExcept(http, r) ==
    IF http.kind = "URLError"
    THEN Raise("Exception", <<"ClickHouse query failed: ">> \o http.msg)
    ELSE IF http.kind = "other" THEN Raise(http.type, http.msg)
    ELSE r

\* query(sql, format): [result, requests]
Query(c, sqltext, format, http) ==
    LET url == base_url(c) \o <<"/?database=">> \o c.database
               \o <<"&format=">> \o format \o Credentials(c)
        req == [url |-> url, data |-> sqltext, method |-> "POST",
                headers |-> << <<"Content-Type", <<"text/plain">> >> >>]
    IN  [result |-> QueryExcept(http, IF http.kind = "ok" THEN ParseData(http.body)
                                                          ELSE None),
         requests |-> Attempts(req, http)]

\* the rows insert is called with
TAB == "\t"
NL == "\n"
InsertRows == {
    <<>>,
    << << <<"a", VInt(1)>>, <<"b", VStr(<<"x">>)>> >> >>,
    << << <<"a", VInt(1)>>, <<"b", VStr(<<"x">>)>> >>,
       << <<"b", VStr(<<"y">>)>>, <<"a", VInt(2)>> >> >>,
    << << <<"a", VInt(1)>>, <<"b", VStr(<<"x">>)>> >>, << <<"a", VInt(2)>> >> >>,
    << << <<"a", VInt(1)>> >>, << <<"c", VInt(3)>>, <<"a", VNone>> >> >>,
    << << <<"a", VStr(<<"x", TAB, "y">>)>> >> >>,
    << << <<"a", VStr(<<"x", NL, "y">>)>>, <<"b", VInt(2)>> >> >> }

\* insert's try/except: `except urllib.error.URLError`
InsertExcept(http) ==
    IF http.kind = "ok" THEN Return(TRUE)
    ELSE IF http.kind = "URLError"
    THEN Raise("Exception", <<"ClickHouse insert failed: ">> \o http.msg)
    ELSE Raise(http.type, http.msg)

\* the TabSeparated payload: str() of every value, tab-joined, newline-joined
InsertData(rows) ==
    LET columns == Keys(rows[1])
        values == [i \in 1..Len(rows) |->
                     [j \in 1..Len(columns) |-> Str(Get(rows[i], columns[j], VStr(<<>>)))]]
        values_lines == [i \in 1..Len(rows) |-> Join(values[i], <<TAB>>)]
    IN  Join(values_lines, <<NL>>)

\* the INSERT statement
InsertSql(table, rows) ==
    LET columns == Keys(rows[1])
        columns_str == Join([j \in 1..Len(columns) |-> <<columns[j]>>], <<", ">>)
    IN  <<"INSERT INTO ">> \o table \o <<" (">> \o columns_str
        \o <<") FORMAT TabSeparated">>

\* insert(table, rows): [result, requests]
Insert(c, table, rows, http) ==
    IF rows = <<>> THEN [result |-> Return(TRUE), requests |-> <<>>]
    ELSE LET url == base_url(c) \o <<"/?database=">> \o c.database \o Credentials(c)
             req == [url |-> url, data |-> InsertData(rows), method |-> "POST",
                     headers |-> << <<"Content-Type", <<"text/plain">> >>,
                                    <<"X-ClickHouse-Query", InsertSql(table, rows)>> >>]
         IN  [result |-> InsertExcept(http), requests |-> Attempts(req, http)]

(***************************************************************************)
(* The methods built on query                                              *)
(***************************************************************************)
\* what a method hands back to its action: its own outcome, the outcome of
\* its nested self.query() if it made one, the requests sent, the exception
\* its except clause caught, and the file content it wrote
Outcome(res, inn, reqs, exc, file) ==
    [result |-> res, inner |-> inn, requests |-> reqs, caught |-> exc, written |-> file]

CaughtOf(r) == IF r.kind = "raise" THEN Some(r) ELSE None

\* create_table's except clause letting the failure out
CreateTableExceptRaises(r) == IF r.kind = "raise" THEN r ELSE Return(TRUE)

\* create_table's try/except: True after query, False on any exception
CreateTableExcept(r) == IF r.kind = "raise" THEN Return(FALSE) ELSE Return(TRUE)

CreateTableSql(name, schema, engine, order) ==
    <<"\n        CREATE TABLE IF NOT EXISTS ">> \o name
    \o <<" (\n            ">> \o schema \o <<"\n        )\n        ENGINE = ">>
    \o engine \o <<"\n        ORDER BY ">> \o order \o <<"\n        ">>

create_table(c, name, schema, engine, order, http) ==
    LET q == Query(c, CreateTableSql(name, schema, engine, order), <<"JSON">>, http)
    IN  Outcome(CreateTableExcept(q.result), Some(q.result), q.requests,
                CaughtOf(q.result), None)

describe_table(c, name, http) ==
    LET q == Query(c, <<"DESCRIBE TABLE ">> \o name, <<"JSON">>, http)
    IN  Outcome(q.result, Some(q.result), q.requests, None, None)

\* [row["name"] for row in results]
NamesOf(results) ==
    IF \E i \in 1..Len(results) : ~HasKey(results[i], "name")
    THEN Raise("KeyError", <<"'name'">>)
    ELSE Return([i \in 1..Len(results) |-> Get(results[i], "name", VNone)])

list_tables(c, database, http) ==
    LET db == IF TruthyStr(database) THEN database.val ELSE c.database
        q == Query(c, <<"SELECT name FROM system.tables WHERE database = '">>
                      \o db \o <<"'">>, <<"JSON">>, http)
    IN  Outcome(IF q.result.kind = "raise" THEN q.result ELSE NamesOf(q.result.val),
                Some(q.result), q.requests, None, None)

\* a number as Python compares it (0 == 0.0): a fraction in lowest terms
RECURSIVE GCD(_, _)
GCD(a, b) == IF b = 0 THEN a ELSE GCD(b, a % b)
TrueDiv(a, b) == LET g == GCD(a, b) IN [num |-> a \div g, den |-> b \div g]
Num(n) == [num |-> n, den |-> 1]

\* 1024 * 1024
MiB == 1024 * 1024

ZeroStats == [rows |-> VInt(0), compressed_size_mb |-> Num(0),
              uncompressed_size_mb |-> Num(0)]

\* the record built from a row whose byte counts are numbers
StatsOfRow(row) ==
    [rows |-> Get(row, "rows", VInt(0)),
     compressed_size_mb |-> TrueDiv(Get(row, "compressed_size", VInt(0)).n, MiB),
     uncompressed_size_mb |-> TrueDiv(Get(row, "uncompressed_size", VInt(0)).n, MiB)]

\* the body of table_stats's try: the division raises TypeError on a value
\* that is no number
TableStatsTry(r) ==
    IF r.kind = "raise" THEN r
    ELSE IF r.val = <<>> THEN Return(ZeroStats)
    ELSE LET row == r.val[1]
         IN  IF Get(row, "compressed_size", VInt(0)).t = "str"
                \/ Get(row, "uncompressed_size", VInt(0)).t = "str"
             THEN Raise("TypeError",
                        <<"unsupported operand type(s) for /: 'str' and 'int'">>)
             ELSE IF Get(row, "compressed_size", VInt(0)).t = "none"
                     \/ Get(row, "uncompressed_size", VInt(0)).t = "none"
             THEN Raise("TypeError",
                        <<"unsupported operand type(s) for /: 'NoneType' and 'int'">>)
             ELSE Return(StatsOfRow(row))

\* table_stats's except clause catching only the client's own failure
TableStatsExceptOwn(r) ==
    IF r.kind = "raise" /\ r.type = "Exception" THEN Return(ZeroStats) ELSE r

\* table_stats's `except Exception`: the zeroed record
TableStatsExcept(r) == IF r.kind = "raise" THEN Return(ZeroStats) ELSE r

TableStatsSql(name) ==
    <<"\n        SELECT\n            rows,\n            bytes_on_disk as compressed_size,\n            bytes_uncompressed as uncompressed_size\n        FROM system.tables\n        WHERE name = '">>
    \o name \o <<"'\n        ">>

table_stats(c, name, http) ==
    LET q == Query(c, TableStatsSql(name), <<"JSON">>, http)
        t == TableStatsTry(q.result)
    IN  Outcome(TableStatsExcept(t), Some(q.result), q.requests, CaughtOf(t), None)

\* execute_file's message without the cause
ExecuteFileExceptNoCause(path, e) ==
    Raise("Exception", <<"Failed to execute file ">> \o path)

\* execute_file's except clause
ExecuteFileExcept(path, e) ==
    Raise("Exception", <<"Failed to execute file ">> \o path \o <<": ">> \o e.msg)

execute_file(c, path, fs, http) ==
    IF fs.kind = "error"
    THEN LET e == Raise(fs.type, fs.msg)
         IN  Outcome(ExecuteFileExcept(path, e), None, <<>>, Some(e), None)
    ELSE LET q == Query(c, fs.content, <<"JSON">>, http)
         IN  IF q.result.kind = "raise"
             THEN Outcome(ExecuteFileExcept(path, q.result), Some(q.result),
                          q.requests, Some(q.result), None)
             ELSE Outcome(Return(TRUE), Some(q.result), q.requests, None, None)

\* export_csv's except clause
ExportCsvExcept(e) == Raise("Exception", <<"Failed to export CSV: ">> \o e.msg)

\* the text csv writes for a value: None is the empty field
CsvField(v) == IF v.t = "none" THEN <<>> ELSE Str(v)

\* DictWriter's line of a row: restval "" for a missing key
CsvLine(row, columns) ==
    [j \in 1..Len(columns) |-> CsvField(Get(row, columns[j], VStr(<<>>)))]

\* the keys of a row that are no fieldnames (DictWriter raises ValueError)
WrongFields(row, columns) ==
    SelectSeq(Keys(row), LAMBDA k : \A j \in 1..Len(columns) : columns[j] # k)

\* the first row DictWriter refuses, 0 when it writes them all
FirstBad(results, columns) ==
    LET bad == {i \in 1..Len(results) : WrongFields(results[i], columns) # <<>>}
    IN  IF bad = {} THEN 0 ELSE CHOOSE i \in bad : \A j \in bad : i <= j

\* export_csv(sql, output_path); the file is the sequence of its lines, a line
\* the sequence of its fields
export_csv(c, sqltext, output_path, fs, http) ==
    LET q == Query(c, sqltext, <<"JSON">>, http)
        results == q.result.val
        columns == Keys(results[1])
        header == << [j \in 1..Len(columns) |-> <<columns[j]>>] >>
        k == FirstBad(results, columns)
        openErr == Raise(fs.type, fs.msg)
        valErr == Raise("ValueError",
                        <<"dict contains fields not in fieldnames: ">>
                        \o Join([j \in 1..Len(WrongFields(results[k], columns)) |->
                                   <<"'", WrongFields(results[k], columns)[j], "'">>],
                                <<", ">>))
    IN  IF q.result.kind = "raise"
        THEN Outcome(ExportCsvExcept(q.result), Some(q.result), q.requests,
                     Some(q.result), None)
        ELSE IF fs.kind = "error"
        THEN Outcome(ExportCsvExcept(openErr), Some(q.result), q.requests,
                     Some(openErr), None)
        ELSE IF results = <<>>
        THEN Outcome(Return(TRUE), Some(q.result), q.requests, None, Some(<<>>))
        ELSE IF k # 0
        THEN Outcome(ExportCsvExcept(valErr), Some(q.result), q.requests, Some(valErr),
                     Some(header \o [i \in 1..(k-1) |-> CsvLine(results[i], columns)]))
        ELSE Outcome(Return(TRUE), Some(q.result), q.requests, None,
                     Some(header \o [i \in 1..Len(results) |-> CsvLine(results[i], columns)]))

(***************************************************************************)
(* main(): the CLI                                                         *)
(***************************************************************************)
\* one print() call: a text, or json.dumps(value, indent=2)
TextLine(t) == [kind |-> "text", v |-> t]
JsonLine(v) == [kind |-> "json", v |-> v]

\* what main() leaves behind: the lines printed and the exit status
Cli(lines, status) == [stdout |-> lines, exit |-> status]

\* an except clause that reports the error and ends the process with status 1
CliExceptExits(e) == Cli(<< TextLine(<<"Error: ">> \o e.msg) >>, 1)

\* `except Exception as e: print(f"Error: {e}")`, then main() returns
CliExcept(e) == Cli(<< TextLine(<<"Error: ">> \o e.msg) >>, 0)

\* the branch of main() for a subcommand, given the Client call's outcome
CliBranch(command, r) ==
    IF r.kind = "raise" THEN CliExcept(r)
    ELSE IF command = "tables"
    THEN Cli([i \in 1..Len(r.val) |-> TextLine(Str(r.val[i]))], 0)
    ELSE Cli(<< JsonLine(r.val) >>, 0)

\* the Client call main() makes for a subcommand
CliCall(c, command, arg, http) ==
    CASE command = "query" ->
            LET q == Query(c, arg, <<"JSON">>, http)
            IN  Outcome(q.result, None, q.requests, None, None)
      [] command = "tables" -> list_tables(c, None, http)
      [] command = "stats" -> table_stats(c, arg, http)

(***************************************************************************)
(* The inputs of the calls, and the actions: one per method                *)
(***************************************************************************)
SqlArgs == {<<"SELECT 1">>, <<"SELECT * FROM t">>}
Formats == {<<"JSON">>, <<"TabSeparated">>}
TableNames == {<<"events">>, <<"t">>}
Databases == {None, Some(<<>>), Some(<<"analytics">>)}
SqlPaths == {<<"/tmp/", "q.sql">>}
CsvPaths == {<<"/tmp/", "out.csv">>}
Commands == {"query", "tables", "stats"}

Called(m, a, e, o) ==
    /\ method' = m
    /\ args' = a
    /\ env' = e
    /\ requests' = o.requests
    /\ inner' = o.inner
    /\ result' = o.result
    /\ caught' = o.caught
    /\ written' = o.written
    /\ UNCHANGED <<conn, builderVars>>

\* the environment's answers to a call; a part the call never asked for is unused
NoHttp == [kind |-> "unused", type |-> "", msg |-> <<>>, body |-> None]
NoFs == [kind |-> "unused", type |-> "", msg |-> <<>>, content |-> <<>>]
Env(http, fs) == [http |-> http, fs |-> fs]

QueryCall ==
    \E sqltext \in SqlArgs, format \in Formats, http \in HttpOutcomes :
        LET q == Query(conn, sqltext, format, http)
        IN  /\ Called("query", [sql |-> sqltext, format |-> format], Env(http, NoFs),
                      Outcome(q.result, None, q.requests,
                              IF http.kind = "URLError"
                              THEN Some(Raise("URLError", http.msg)) ELSE None, None))
            /\ UNCHANGED <<stdout, exit>>

\* query_df(sql): query(sql, format="JSON")
QueryDf ==
    \E sqltext \in SqlArgs, http \in HttpOutcomes :
        LET q == Query(conn, sqltext, <<"JSON">>, http)
        IN  /\ Called("query_df", [sql |-> sqltext], Env(http, NoFs),
                      Outcome(q.result, Some(q.result), q.requests, None, None))
            /\ UNCHANGED <<stdout, exit>>

InsertCall ==
    \E table \in TableNames, rows \in InsertRows, http \in HttpOutcomes :
        LET r == Insert(conn, table, rows, http)
        IN  /\ Called("insert", [table |-> table, rows |-> rows],
                      Env(IF r.requests = <<>> THEN NoHttp ELSE http, NoFs),
                      Outcome(r.result, None, r.requests,
                              IF r.requests # <<>> /\ http.kind = "URLError"
                              THEN Some(Raise("URLError", http.msg)) ELSE None, None))
            /\ UNCHANGED <<stdout, exit>>

CreateTable ==
    \E name \in TableNames, http \in HttpOutcomes :
        /\ Called("create_table", [name |-> name], Env(http, NoFs),
                  create_table(conn, name, <<"id UInt64">>, <<"MergeTree()">>,
                               <<"tuple()">>, http))
        /\ UNCHANGED <<stdout, exit>>

DescribeTable ==
    \E name \in TableNames, http \in HttpOutcomes :
        /\ Called("describe_table", [name |-> name], Env(http, NoFs),
                  describe_table(conn, name, http))
        /\ UNCHANGED <<stdout, exit>>

ListTables ==
    \E database \in Databases, http \in HttpOutcomes :
        /\ Called("list_tables", [database |-> database], Env(http, NoFs),
                  list_tables(conn, database, http))
        /\ UNCHANGED <<stdout, exit>>

TableStats ==
    \E name \in TableNames, http \in HttpOutcomes :
        /\ Called("table_stats", [name |-> name], Env(http, NoFs),
                  table_stats(conn, name, http))
        /\ UNCHANGED <<stdout, exit>>

ExecuteFile ==
    \E path \in SqlPaths, http \in HttpOutcomes :
        \E fs \in ReadOutcomes(path) :
            LET o == execute_file(conn, path, fs, http)
            IN  /\ Called("execute_file", [path |-> path],
                          Env(IF o.requests = <<>> THEN NoHttp ELSE http, fs), o)
                /\ UNCHANGED <<stdout, exit>>

ExportCsv ==
    \E sqltext \in SqlArgs, path \in CsvPaths, http \in HttpOutcomes :
        \E fs \in WriteOutcomes(path) :
            LET o == export_csv(conn, sqltext, path, fs, http)
            IN  /\ Called("export_csv", [sql |-> sqltext, path |-> path],
                          Env(http, IF o.inner.val.kind = "raise" THEN NoFs ELSE fs), o)
                /\ UNCHANGED <<stdout, exit>>

\* main() with a subcommand: ClickHouseClient(args...), the call, the prints
Main ==
    \E command \in Commands, arg \in SqlArgs \cup TableNames, http \in HttpOutcomes :
        /\ command = "query" => arg \in SqlArgs
        /\ command = "stats" => arg \in TableNames
        /\ command = "tables" => arg = <<"t">>
        /\ LET o == CliCall(conn, command, arg, http)
               cli == CliBranch(command, o.result)
           IN  /\ Called("main", [command |-> command, arg |-> arg], Env(http, NoFs),
                         Outcome(o.result, o.inner, o.requests,
                                 CaughtOf(o.result), None))
               /\ stdout' = cli.stdout
               /\ exit' = Some(cli.exit)

(***************************************************************************)
(* Properties of the client and the CLI                                    *)
(***************************************************************************)
StartsWith(s, pre) == Len(s) >= Len(pre) /\ SubSeq(s, 1, Len(pre)) = pre
\* sub occurs in s
Contains(s, sub) ==
    \E i \in 1..(Len(s) - Len(sub) + 1) : SubSeq(s, i, i + Len(sub) - 1) = sub

RECURSIVE Split(_, _)
\* s.split(sep) for a one-token separator
Split(s, sep) ==
    LET idx == {i \in 1..Len(s) : s[i] = sep}
    IN  IF idx = {} THEN <<s>>
        ELSE LET i == CHOOSE k \in idx : \A j \in idx : k <= j
             IN  <<SubSeq(s, 1, i - 1)>> \o Split(SubSeq(s, i + 1, Len(s)), sep)

\* the message of what made the request of the last call fail
HttpCause == IF env.http.kind = "ok" THEN ParseData(env.http.body).msg ELSE env.http.msg

\* C2: whenever query fails, on a transport failure or on a body that cannot
\* be parsed, the caller gets the query-failure error ("ClickHouse query
\* failed: ...") with the cause in its message, and no other kind of error.
C2_QueryFailureKind ==
    (method \in {"query", "query_df"} /\ result.kind = "raise") =>
        /\ result.type = "Exception"
        /\ StartsWith(result.msg, <<"ClickHouse query failed: ">>)
        /\ Contains(result.msg, HttpCause)

\* the message of what made execute_file / export_csv fail
FileCause ==
    IF ~inner.isNone /\ inner.val.kind = "raise" THEN inner.val.msg
    ELSE IF env.fs.kind = "error" THEN env.fs.msg
    ELSE caught.val.msg

\* whether something failed inside execute_file / export_csv
FileFailed ==
    \/ ~inner.isNone /\ inner.val.kind = "raise"
    \/ env.fs.kind = "error"
    \/ ~caught.isNone

\* C3 as stated: every failure of execute_file(path) and of
\* export_csv(sql, output_path) is raised as a file-operation failure whose
\* message includes the path passed to the operation and the cause.
C3_FileFailureNamesPath ==
    (method \in {"execute_file", "export_csv"} /\ FileFailed) =>
        /\ result.kind = "raise"
        /\ result.type = "Exception"
        /\ Contains(result.msg, args.path)
        /\ Contains(result.msg, FileCause)

\* C3 amended: every failure of execute_file(path) is raised as "Failed to
\* execute file {path}: {cause}", with the path and the cause; every failure
\* of export_csv is raised as "Failed to export CSV: {cause}", with the cause
\* and nothing else (the output path is not added).
C3_FileFailureWrapped ==
    /\ method \in {"execute_file", "export_csv"} =>
          (result.kind = "raise" <=> FileFailed)
    /\ (method = "execute_file" /\ FileFailed) =>
          /\ result.kind = "raise" /\ result.type = "Exception"
          /\ StartsWith(result.msg, <<"Failed to execute file ">>)
          /\ Contains(result.msg, args.path)
          /\ Contains(result.msg, FileCause)
    /\ (method = "export_csv" /\ FileFailed) =>
          /\ result.kind = "raise" /\ result.type = "Exception"
          /\ result.msg = <<"Failed to export CSV: ">> \o FileCause

\* C3's case: export_csv whose query failed; the message has the cause and
\* not the output path
C3_Witness ==
    /\ method = "export_csv"
    /\ inner.val.kind = "raise"
    /\ result.kind = "raise"
    /\ Contains(result.msg, inner.val.msg)
    /\ ~Contains(result.msg, args.path)

\* C4: table_stats never raises; it returns the zeroed record when the query
\* fails, returns no row, or the row cannot be processed, and otherwise the
\* row's rows value and its byte counts divided by 1,048,576.
C4_TableStatsNeverRaises ==
    method = "table_stats" =>
        /\ result.kind = "return"
        /\ LET q == inner.val
               row == q.val[1]
               cs == Get(row, "compressed_size", VInt(0))
               us == Get(row, "uncompressed_size", VInt(0))
               processed == /\ q.kind = "return" /\ q.val # <<>>
                            /\ cs.t = "int" /\ us.t = "int"
           IN  IF processed
               THEN /\ result.val.rows = Get(row, "rows", VInt(0))
                    /\ result.val.compressed_size_mb = TrueDiv(cs.n, 1048576)
                    /\ result.val.uncompressed_size_mb = TrueDiv(us.n, 1048576)
               ELSE result.val = [rows |-> VInt(0), compressed_size_mb |-> Num(0),
                                  uncompressed_size_mb |-> Num(0)]

\* C4's case: the row's byte counts are strings, the division fails, and the
\* zeroed record is returned
C4_Witness ==
    /\ method = "table_stats"
    /\ inner.val.kind = "return" /\ inner.val.val # <<>>
    /\ ~caught.isNone /\ caught.val.type = "TypeError"
    /\ result.kind = "return" /\ result.val.rows = VInt(0)

\* C5: create_table returns TRUE exactly when its query call completes and
\* FALSE, without raising, when it fails; describe_table and list_tables
\* raise the query's own failure.
C5_CreateTableSwallows ==
    /\ method = "create_table" =>
          /\ result.kind = "return"
          /\ result.val <=> (inner.val.kind = "return")
    /\ (method \in {"describe_table", "list_tables"} /\ inner.val.kind = "raise") =>
          result = inner.val

\* C5's case: create_table whose query failed on a body that is no JSON
C5_Witness ==
    /\ method = "create_table"
    /\ inner.val.kind = "raise" /\ inner.val.type = "JSONDecodeError"
    /\ result.kind = "return" /\ ~result.val

\* C6: insert with no rows returns TRUE and sends nothing; with rows it sends
\* a request, returns TRUE only if the request succeeds and raises the
\* insert failure ("ClickHouse insert failed: ...") otherwise.
C6_InsertAllOrNothing ==
    method = "insert" =>
        IF args.rows = <<>>
        THEN requests = <<>> /\ result.kind = "return" /\ result.val
        ELSE /\ Len(requests) = 1
             /\ env.http.kind = "ok" => result.kind = "return" /\ result.val
             /\ env.http.kind # "ok" =>
                   /\ result.kind = "raise"
                   /\ result.type = "Exception"
                   /\ StartsWith(result.msg, <<"ClickHouse insert failed: ">>)

\* the value of a request header
Header(req, name) ==
    req.headers[CHOOSE i \in 1..Len(req.headers) : req.headers[i][1] = name][2]

\* C7: for non-empty rows, the columns are the first row's keys in insertion
\* order; the X-ClickHouse-Query statement lists them comma-separated; the
\* body has one line per row, in order, and each line has exactly one
\* tab-separated field per column, in column order: str() of the row's value,
\* empty for a missing key; keys that are not the first row's are dropped.
C7_InsertColumns ==
    (method = "insert" /\ args.rows # <<>>) =>
        LET rows == args.rows
            columns == Keys(rows[1])
            stmt == Header(requests[1], "X-ClickHouse-Query")
            open == CHOOSE i \in 1..Len(stmt) : stmt[i] = " ("
            lines == Split(requests[1].data, NL)
        IN  /\ stmt[Len(stmt)] = ") FORMAT TabSeparated"
            /\ Split(SubSeq(stmt, open + 1, Len(stmt) - 1), ", ")
                 = [j \in 1..Len(columns) |-> <<columns[j]>>]
            /\ Len(lines) = Len(rows)
            /\ \A i \in 1..Len(lines) :
                  LET fields == Split(lines[i], TAB)
                  IN  /\ Len(fields) = Len(columns)
                      /\ \A j \in 1..Len(fields) :
                            fields[j] = Str(Get(rows[i], columns[j], VStr(<<>>)))

\* C9: for every subcommand, an exception of the Client call is printed as
\* "Error: {message}" and the process ends with status 0, as it does when
\* the call succeeds.
C9_CliAlwaysExitsZero ==
    method = "main" =>
        /\ exit = Some(0)
        /\ result.kind = "raise" =>
              stdout = << TextLine(<<"Error: ">> \o result.msg) >>
        /\ result.kind = "return" =>
              \A i \in 1..Len(stdout) :
                  ~(stdout[i].kind = "text" /\ StartsWith(stdout[i].v, <<"Error: ">>))

\* C9's case: the query subcommand whose call raised; the error is printed
\* and the status is 0
C9_Witness ==
    /\ method = "main"
    /\ args.command = "query"
    /\ result.kind = "raise" /\ result.type = "JSONDecodeError"
    /\ Len(stdout) = 1 /\ stdout[1].kind = "text" /\ stdout[1].v[1] = "Error: "
    /\ exit = Some(0)

\* C10: one call of a Client method sends at most one HTTP request; after a
\* request that failed, the call sends no other.
C10_AtMostOneRequest ==
    method # "none" =>
        /\ Len(requests) <= 1
        /\ (requests # <<>> /\ env.http.kind # "ok") => Len(requests) = 1

\* C10's case: table_stats, which swallows the failure, after a request that
\* timed out
C10_Witness ==
    /\ method = "table_stats"
    /\ env.http.kind = "other"
    /\ Len(requests) = 1
    /\ result.kind = "return"

ClientIdle ==
    /\ conn = None /\ method = "none" /\ args = None /\ env = None
    /\ requests = <<>> /\ inner = None /\ result = None
    /\ caught = None /\ written = None /\ stdout = <<>> /\ exit = None

BuilderNext == select \/ from_ \/ where \/ group_by \/ order_by \/ limit \/ Build

\* a builder on its own: no client is involved
InitBuilder == BuilderInit /\ ClientIdle

SpecBuilder == InitBuilder /\ [][BuilderNext]_vars

\* a client constructed with one of the connections; no call made yet
Init ==
    /\ BuilderInit
    /\ conn \in Conns
    /\ method = "none" /\ args = None /\ env = None
    /\ requests = <<>> /\ inner = None /\ result = None
    /\ caught = None /\ written = None /\ stdout = <<>> /\ exit = None

Next ==
    \/ QueryCall \/ QueryDf \/ InsertCall \/ CreateTable \/ DescribeTable
    \/ ListTables \/ TableStats \/ ExecuteFile \/ ExportCsv

\* the methods of one client, called one after another
Spec == Init /\ [][Next]_vars

\* runs of the command line program
SpecCli == Init /\ [][Main]_vars
====
